---------------------------- MODULE Spec2Model ----------------------------
(***************************************************************************)
(* A model of meg-frac: the Frac class (src/src/Frac.ts), its integer      *)
(* helpers (src/src/Arith.ts) and its parser (src/src/Parser.ts).          *)
(*                                                                         *)
(* Frac objects live in a heap: a sequence of records [n, d], an object's  *)
(* identity being its index.  A slot holds a JavaScript number or a        *)
(* reference to another object, so that aliasing (the setters and #from    *)
(* do not copy) and in-place mutation (the $ and $$ methods) are those of  *)
(* the code.  Every method is an operator from a heap to a completion      *)
(* [h, err, ret]: the heap it leaves, the error it threw ("" when it       *)
(* returned) and the value it returned.  Then(c, rest) is the sequencing   *)
(* of statements: the rest of a method runs on the completion c of a call  *)
(* unless the call threw.                                                  *)
(*                                                                         *)
(* Numbers are the integers and NaN.  Integer arithmetic is exact; the     *)
(* rounding of doubles beyond the safe-integer range is not modelled, the  *)
(* range check of Number.isSafeInteger is (against MaxSafeInteger, which   *)
(* stands for 2^53 - 1).  -0 is identified with 0: the code tells them     *)
(* apart nowhere (===, truthiness and the string conversion agree).        *)
(***************************************************************************)
EXTENDS Integers, Sequences, FiniteSets, TLC

(***************************************************************************)
(* Bounds of the model.                                                    *)
(***************************************************************************)
\* Stands for Number.MAX_SAFE_INTEGER: the largest magnitude validateArgs accepts.
MaxSafeInteger == 10000
\* Integers handed to the constructor and the setters range over -MaxArg..MaxArg.
MaxArg == 3
\* Exponents handed to pow range over -MaxPow..MaxPow.
MaxPow == 2
\* The integers of nested values range over -1..MaxSmall.
MaxSmall == 2
\* The integers of the flat values that are reduced range over -MaxFlat..MaxFlat.
MaxFlat == 12
\* The destructive operations on a copy and its sources keep the integers within
\* -MaxCopy..MaxCopy.
MaxCopy == 2

(***************************************************************************)
(* JavaScript values.                                                      *)
(***************************************************************************)
Num(i) == [t |-> "num", v |-> i]
NaN == [t |-> "nan", v |-> 0]
Ref(o) == [t |-> "ref", v |-> o]
Undefined == [t |-> "undef", v |-> 0]
\* A value of another type (null, a boolean, a plain object).
Other == [t |-> "other", v |-> 0]
Str(s) == [t |-> "str", v |-> s]
\* A number that is no integer: p / q, q > 1 a power of ten that does not divide p.
Dec(p, q) == [t |-> "dec", v |-> <<p, q>>]
\* The quotient of a division the code never performs (x / 0 with x nonzero, or an
\* inexact quotient): see JDiv.
Inexact == [t |-> "inexact", v |-> 0]

\* typeof e === "number"
IsNumber(e) == e.t \in {"num", "nan", "inexact", "dec"}
\* ToBoolean: 0, NaN and undefined are falsy, an object is truthy.
Truthy(e) == e.t \in {"ref", "inexact", "dec"} \/ (e.t = "num" /\ e.v # 0)

AbsInt(i) == IF i < 0 THEN -i ELSE i
SignInt(i) == IF i < 0 THEN -1 ELSE IF i > 0 THEN 1 ELSE 0

JMul(a, b) ==
    IF a.t = "num" /\ b.t = "num" THEN Num(a.v * b.v)
    ELSE IF a.t = "nan" \/ b.t = "nan" THEN NaN ELSE Inexact
JAdd(a, b) ==
    IF a.t = "num" /\ b.t = "num" THEN Num(a.v + b.v)
    ELSE IF a.t = "nan" \/ b.t = "nan" THEN NaN ELSE Inexact
JNeg(a) == IF a.t = "num" THEN Num(-(a.v)) ELSE a
JAbs(a) == IF a.t = "num" THEN Num(AbsInt(a.v)) ELSE a
\* Math.sign
JSign(a) == IF a.t = "num" THEN Num(SignInt(a.v)) ELSE a
\* a / b: 0 / 0 is NaN; an exact quotient is the integer, truncation being moot.
JDiv(a, b) ==
    IF a.t = "nan" \/ b.t = "nan" THEN NaN
    ELSE IF a.t # "num" \/ b.t # "num" THEN Inexact
    ELSE IF b.v = 0 THEN (IF a.v = 0 THEN NaN ELSE Inexact)
    ELSE IF AbsInt(a.v) % AbsInt(b.v) = 0
         THEN Num(SignInt(a.v) * SignInt(b.v) * (AbsInt(a.v) \div AbsInt(b.v)))
         ELSE Inexact
\* a % b: the sign of the dividend; x % 0 is NaN.
JMod(a, b) ==
    IF a.t = "nan" \/ b.t = "nan" THEN NaN
    ELSE IF a.t # "num" \/ b.t # "num" THEN Inexact
    ELSE IF b.v = 0 THEN NaN
    ELSE Num(SignInt(a.v) * (AbsInt(a.v) % AbsInt(b.v)))
RECURSIVE PowInt(_, _)
PowInt(b, k) == IF k = 0 THEN 1 ELSE b * PowInt(b, k - 1)
\* a ** k for an integer k >= 0: anything ** 0 is 1, NaN included.
JPow(a, k) ==
    IF k = 0 THEN Num(1)
    ELSE IF a.t = "num" THEN Num(PowInt(a.v, k)) ELSE a

\* Math.floor of a finite number
JFloor(e) ==
    IF e.t = "dec"
    THEN Num(IF e.v[1] >= 0 THEN e.v[1] \div e.v[2] ELSE -((-e.v[1]) \div e.v[2]) - 1)
    ELSE e

\* Number.isSafeInteger
IsSafeInteger(e) == e.t = "num" /\ AbsInt(e.v) <= MaxSafeInteger

(***************************************************************************)
(* Arith.ts                                                                *)
(***************************************************************************)
\* gcd stopping at the first remainder instead of going on with (b, a % b).
gcd_firstRemainder(a, b) ==
    IF ~Truthy(b) THEN (IF Truthy(a) THEN a ELSE b)
    ELSE LET a2 == JMod(a, b)
         IN  IF Truthy(a2) THEN a2 ELSE b

RECURSIVE gcd(_, _)
\* b && (a %= b) ? gcd(b, a) : a || b
gcd(a, b) ==
    IF ~Truthy(b) THEN (IF Truthy(a) THEN a ELSE b)
    ELSE LET a2 == JMod(a, b)
         IN  IF Truthy(a2) THEN gcd(b, a2) ELSE b

lcm(a, b) == JMul(JDiv(b, gcd(a, b)), a)

ratio(a, b) == LET g == gcd(a, b) IN <<JDiv(a, g), JDiv(b, g)>>

(***************************************************************************)
(* Completions and the heap.                                               *)
(***************************************************************************)
DivisionByZero == "TypeError: cannot divide by zero"
NumeratorOverflow == "TypeError: numerator overflowed"
DenominatorOverflow == "TypeError: denominator overflowed"
InvalidOperandType == "TypeError: must be a finite number or a string or an instance of Frac"
SyntaxError == "SyntaxError"

Ok(h, r) == [h |-> h, err |-> "", ret |-> r]
Throw(h, e) == [h |-> h, err |-> e, ret |-> Undefined]
Failed(c) == c.err # ""
\* A new object: the field initialisers #n = 0, #d = 1 or the fields given.
Alloc(h, n, d) == Ok(Append(h, [n |-> n, d |-> d]), Ref(Len(h) + 1))

(***************************************************************************)
(* Strings: sequences of one-character strings.                            *)
(***************************************************************************)
Digits == <<"0", "1", "2", "3", "4", "5", "6", "7", "8", "9">>
IsDigit(c) == \E i \in 1..10 : Digits[i] = c
DigitVal(c) == (CHOOSE i \in 1..10 : Digits[i] = c) - 1

RECURSIVE NatToString(_)
NatToString(i) ==
    IF i < 10 THEN <<Digits[i + 1]>>
    ELSE NatToString(i \div 10) \o <<Digits[(i % 10) + 1]>>
\* The string conversion of a number that loses the sign.
NumberToString_noSign(e) ==
    IF e.t = "num" THEN NatToString(AbsInt(e.v)) ELSE <<"N", "a", "N">>

\* The string conversion of a number in a template literal.
NumberToString(e) ==
    IF e.t = "num"
    THEN (IF e.v < 0 THEN <<"-">> ELSE <<>>) \o NatToString(AbsInt(e.v))
    ELSE <<"N", "a", "N">>

RECURSIVE DigitsToNat(_, _)
DigitsToNat(s, acc) ==
    IF s = <<>> THEN acc ELSE DigitsToNat(Tail(s), 10 * acc + DigitVal(Head(s)))
\* The number of digits s begins with.
RECURSIVE DigitRun(_)
DigitRun(s) == IF s # <<>> /\ IsDigit(Head(s)) THEN 1 + DigitRun(Tail(s)) ELSE 0
Drop(s, k) == SubSeq(s, k + 1, Len(s))
AllDigits(s) == s # <<>> /\ \A i \in 1..Len(s) : IsDigit(s[i])

HexDigits == Digits \o <<"a", "b", "c", "d", "e", "f">>
IsHexDigit(c) == \E i \in 1..16 : HexDigits[i] = c
RECURSIVE HexToNat(_, _)
HexToNat(s, acc) ==
    IF s = <<>> THEN acc
    ELSE HexToNat(Tail(s), 16 * acc + (CHOOSE i \in 1..16 : HexDigits[i] = Head(s)) - 1)
\* 0x followed by hexadecimal digits
IsHex(s) ==
    /\ Len(s) > 2 /\ s[1] = "0" /\ s[2] = "x"
    /\ \A i \in 3..Len(s) : IsHexDigit(s[i])

\* The integer an optional sign and digits stand for: <<TRUE, k>>, or <<FALSE, 0>>.
SignedDigits(s) ==
    IF s # <<>> /\ Head(s) = "-"
    THEN (IF AllDigits(Tail(s)) THEN <<TRUE, -DigitsToNat(Tail(s), 0)>> ELSE <<FALSE, 0>>)
    ELSE (IF AllDigits(s) THEN <<TRUE, DigitsToNat(s, 0)>> ELSE <<FALSE, 0>>)
\* The exponent part that ends a decimal literal: none, or e and a signed integer.
ExponentOf(s) ==
    IF s = <<>> THEN <<TRUE, 0>>
    ELSE IF Head(s) = "e" THEN SignedDigits(Tail(s))
    ELSE <<FALSE, 0>>
\* m * 10^k for a natural m
Scaled(m, k) ==
    IF k >= 0 THEN Num(m * PowInt(10, k))
    ELSE IF m % PowInt(10, -k) = 0 THEN Num(m \div PowInt(10, -k))
    ELSE Dec(m, PowInt(10, -k))
\* The value of the digits `mantissa`, the last f of them after the point, with
\* the exponent part e.
Finish(mantissa, f, e) ==
    IF e[1] THEN Scaled(DigitsToNat(mantissa, 0), e[2] - f) ELSE NaN
\* An unsigned decimal literal with i digits, a point and f digits.
WithFrac(s, i, f) ==
    IF i + f = 0 THEN NaN
    ELSE Finish(SubSeq(s, 1, i) \o SubSeq(s, i + 2, i + 1 + f), f,
                ExponentOf(Drop(s, i + 1 + f)))
\* An unsigned decimal literal that begins with i digits.
WithInt(s, i) ==
    IF Len(s) > i /\ s[i + 1] = "." THEN WithFrac(s, i, DigitRun(Drop(s, i + 1)))
    ELSE IF i = 0 THEN NaN
    ELSE Finish(SubSeq(s, 1, i), 0, ExponentOf(Drop(s, i)))
Minus(e) ==
    IF e.t = "num" THEN Num(-(e.v))
    ELSE IF e.t = "dec" THEN Dec(-(e.v[1]), e.v[2])
    ELSE e
\* +result: the value of a string over the digits, the letters a to f and x, the
\* sign - and the point as a numeric literal (decimal with an optional fraction and
\* exponent, or hexadecimal), NaN when it is none.
ToNumber(s) ==
    IF s = <<>> THEN Num(0)
    ELSE IF IsHex(s) THEN Num(HexToNat(Drop(s, 2), 0))
    ELSE IF Head(s) = "-" THEN Minus(WithInt(Tail(s), DigitRun(Tail(s))))
    ELSE WithInt(s, DigitRun(s))

(***************************************************************************)
(* Parser.ts: the position `current` is 0-based as in the code.            *)
(***************************************************************************)
IsWhitespace(c) == c = " "
getToken(str, current) ==
    IF current >= Len(str) THEN "WHITESPACE"
    ELSE LET char == str[current + 1]
         IN  CASE char = "(" -> "LPAREN"
               [] char = ")" -> "RPAREN"
               [] char = "/" -> "DIV"
               [] OTHER -> IF IsWhitespace(char) THEN "WHITESPACE" ELSE "NUMBER"

RECURSIVE eatWhitespace(_, _)
eatWhitespace(str, current) ==
    IF current < Len(str) /\ getToken(str, current) = "WHITESPACE"
    THEN eatWhitespace(str, current + 1)
    ELSE current

RECURSIVE numberEnd(_, _)
\* The position getNumber stops at.
numberEnd(str, current) ==
    IF current < Len(str) /\ getToken(str, current) = "NUMBER"
    THEN numberEnd(str, current + 1)
    ELSE current
getNumber(str, current) == ToNumber(SubSeq(str, current + 1, numberEnd(str, current)))

POk(h, r, cur) == [h |-> h, err |-> "", ret |-> r, current |-> cur]
PThrow(h, e, cur) == [h |-> h, err |-> e, ret |-> Undefined, current |-> cur]

(***************************************************************************)
(* Frac.ts                                                                 *)
(***************************************************************************)
RECURSIVE validateArgs(_, _, _, _), construct(_, _, _), from(_, _, _),
          set_n(_, _, _), set_d(_, _, _), Parser_parse(_, _, _),
          operand(_, _, _, _), Frac_parse(_, _),
          reduce_S(_, _), mul_S(_, _, _), mul_SS(_, _, _), div_SS(_, _, _)

\* The rest of a method after a call that may throw: v is what the call completed
\* with, c being evaluated once.
Then(c, rest(_)) ==
    CHOOSE r \in {IF Failed(v) THEN v ELSE rest(v) : v \in {c}} : TRUE

\* Frac.parse, the parser having stopped as p says
Parsed(p, length) ==
    IF Failed(p) THEN Throw(p.h, p.err)
    ELSE IF p.current # length THEN Throw(p.h, SyntaxError)
    ELSE Ok(p.h, p.ret)

\* Frac.parse
Frac_parse(h, str) == Parsed(Parser_parse(h, str, 0), Len(str))

\* Frac.#validateArgs without the test for a zero denominator.
validateArgs_noZeroTest(h, e, isNumerator, deepCopy) ==
    CASE e.t = "undef" -> Ok(h, e)
      [] IsNumber(e) ->
            IF IsSafeInteger(JFloor(e)) THEN Ok(h, JFloor(e))
            ELSE Throw(h, IF isNumerator THEN NumeratorOverflow ELSE DenominatorOverflow)
      [] e.t = "str" -> Frac_parse(h, e.v)
      [] e.t = "ref" ->
            IF deepCopy THEN construct(h, h[e.v].n, h[e.v].d) ELSE Ok(h, e)
      [] OTHER -> Throw(h, InvalidOperandType)

\* Frac.#validateArgs copying a Frac one level deep: the copy shares the parts.
validateArgs_shallow(h, e, isNumerator, deepCopy) ==
    CASE e.t = "undef" -> Ok(h, e)
      [] IsNumber(e) ->
            IF ~isNumerator /\ JFloor(e) = Num(0) THEN Throw(h, DivisionByZero)
            ELSE IF IsSafeInteger(JFloor(e)) THEN Ok(h, JFloor(e))
            ELSE Throw(h, IF isNumerator THEN NumeratorOverflow ELSE DenominatorOverflow)
      [] e.t = "str" -> Frac_parse(h, e.v)
      [] e.t = "ref" ->
            IF deepCopy THEN Alloc(h, h[e.v].n, h[e.v].d) ELSE Ok(h, e)
      [] OTHER -> Throw(h, InvalidOperandType)

\* Frac.#validateArgs handing a Frac over as it is, whatever deepCopy says.
validateArgs_noCopy(h, e, isNumerator, deepCopy) ==
    CASE e.t = "undef" -> Ok(h, e)
      [] IsNumber(e) ->
            IF ~isNumerator /\ JFloor(e) = Num(0) THEN Throw(h, DivisionByZero)
            ELSE IF IsSafeInteger(JFloor(e)) THEN Ok(h, JFloor(e))
            ELSE Throw(h, IF isNumerator THEN NumeratorOverflow ELSE DenominatorOverflow)
      [] e.t = "str" -> Frac_parse(h, e.v)
      [] e.t = "ref" -> Ok(h, e)
      [] OTHER -> Throw(h, InvalidOperandType)

\* Frac.#validateArgs
validateArgs(h, e, isNumerator, deepCopy) ==
    CASE e.t = "undef" -> Ok(h, e)
      [] IsNumber(e) ->
            IF ~isNumerator /\ JFloor(e) = Num(0) THEN Throw(h, DivisionByZero)
            ELSE IF IsSafeInteger(JFloor(e)) THEN Ok(h, JFloor(e))
            ELSE Throw(h, IF isNumerator THEN NumeratorOverflow ELSE DenominatorOverflow)
      [] e.t = "str" -> Frac_parse(h, e.v)
      [] e.t = "ref" ->
            IF deepCopy THEN construct(h, h[e.v].n, h[e.v].d) ELSE Ok(h, e)
      [] OTHER -> Throw(h, InvalidOperandType)

\* Frac.#from
from(h, numerator, denominator) ==
    IF denominator.t # "undef" \/ IsNumber(numerator)
    THEN Then(Alloc(h, Num(0), Num(1)), LAMBDA frac :
         Then(set_n(frac.h, frac.ret.v, numerator), LAMBDA c1 :
         Then(set_d(c1.h, frac.ret.v,
                    IF denominator.t # "undef" THEN denominator ELSE Num(1)), LAMBDA c2 :
         Ok(c2.h, frac.ret))))
    ELSE Ok(h, numerator)

\* set n
set_n(h, this, value) ==
    Then(validateArgs(h, value, TRUE, FALSE), LAMBDA c :
        Ok([c.h EXCEPT ![this].n = IF c.ret.t = "undef" THEN Num(0) ELSE c.ret],
           Undefined))

\* set d
set_d(h, this, value) ==
    Then(validateArgs(h, value, FALSE, FALSE), LAMBDA c :
        Ok([c.h EXCEPT ![this].d = IF c.ret.t = "undef" THEN Num(1) ELSE c.ret],
           Undefined))

\* Frac.constructor
construct(h, numerator, denominator) ==
    Then(validateArgs(h, numerator, TRUE, TRUE), LAMBDA n :
    Then(validateArgs(n.h, denominator, FALSE, TRUE), LAMBDA d :
        IF n.ret.t = "undef" THEN Alloc(d.h, Num(0), Num(1))
        ELSE IF Truthy(d.ret) THEN Alloc(d.h, n.ret, d.ret)
        ELSE IF IsNumber(n.ret) THEN Alloc(d.h, n.ret, Num(1))
        ELSE Ok(d.h, n.ret)))

\* The numerator or the denominator of Parser.parse: a number or a fraction.
operand(h, str, current, isNumerator) ==
    CASE getToken(str, current) = "NUMBER" ->
            POk(h, getNumber(str, current), numberEnd(str, current))
      [] getToken(str, current) = "LPAREN" -> Parser_parse(h, str, current)
      [] OTHER -> PThrow(h, SyntaxError, current)

\* return this.fracConstructor(numerator, denominator), the parser at `current`
Constructed(f, current) == [h |-> f.h, err |-> f.err, ret |-> f.ret, current |-> current]

\* Parser.parse
Parser_parse(h, str, current) ==
    LET c0 == eatWhitespace(str, current)
    IN  IF getToken(str, c0) # "LPAREN" THEN PThrow(h, SyntaxError, c0)
        ELSE
        Then(operand(h, str, eatWhitespace(str, c0 + 1), TRUE), LAMBDA numerator :
        LET c1 == eatWhitespace(str, numerator.current)
        IN  IF getToken(str, c1) # "DIV" THEN PThrow(numerator.h, SyntaxError, c1)
            ELSE
            Then(operand(numerator.h, str, eatWhitespace(str, c1 + 1), FALSE),
                 LAMBDA denominator :
            LET c2 == eatWhitespace(str, denominator.current)
            IN  IF getToken(str, c2) # "RPAREN"
                THEN PThrow(denominator.h, SyntaxError, c2)
                ELSE Constructed(from(denominator.h, numerator.ret, denominator.ret),
                                 eatWhitespace(str, c2 + 1))))

\* inv$
inv_S(h, this) ==
    Ok([h EXCEPT ![this].n = h[this].d, ![this].d = h[this].n], Ref(this))

\* [this.#n, this.#d] = [frac.#n, frac.#d]
Taken(frac, this) ==
    Ok([frac.h EXCEPT ![this].n = frac.h[frac.ret.v].n, ![this].d = frac.h[frac.ret.v].d],
       Ref(this))

\* reduce$ without Math.abs around the new denominator.
reduce_S_noAbs(h, this) ==
    IF IsNumber(h[this].n) /\ IsNumber(h[this].d)
    THEN LET s == gcd(h[this].n, h[this].d)
             sign == JSign(h[this].d)
         IN  Then(set_n(h, this, JMul(JDiv(h[this].n, JAbs(s)), sign)), LAMBDA c1 :
             Then(set_d(c1.h, this, JDiv(c1.h[this].d, s)), LAMBDA c2 :
             Ok(c2.h, Ref(this))))
    ELSE Then(from(h, h[this].n, Undefined), LAMBDA l :
         Then(from(l.h, l.h[this].d, Undefined), LAMBDA r :
         Then(div_SS(r.h, l.ret.v, r.ret.v), LAMBDA frac :
         Taken(frac, this))))

\* reduce$
reduce_S(h, this) ==
    IF IsNumber(h[this].n) /\ IsNumber(h[this].d)
    THEN LET s == gcd(h[this].n, h[this].d)
             sign == JSign(h[this].d)
         IN  Then(set_n(h, this, JMul(JDiv(h[this].n, JAbs(s)), sign)), LAMBDA c1 :
             Then(set_d(c1.h, this, JAbs(JDiv(c1.h[this].d, s))), LAMBDA c2 :
             Ok(c2.h, Ref(this))))
    ELSE Then(from(h, h[this].n, Undefined), LAMBDA l :
         Then(from(l.h, l.h[this].d, Undefined), LAMBDA r :
         Then(div_SS(r.h, l.ret.v, r.ret.v), LAMBDA frac :
         Taken(frac, this))))

\* this.#n = p, this.#d = p: the field assigned without validation
Field(p, this, isNumerator) ==
    IF isNumerator THEN Ok([p.h EXCEPT ![this].n = p.ret], Undefined)
                   ELSE Ok([p.h EXCEPT ![this].d = p.ret], Undefined)

\* One side of mul$: this.n = this.#n * n, or this.#n = Frac.#from(this.#n).mul$$(Frac.#from(n)).
mulSide(h, this, isNumerator, m) ==
    LET mine == IF isNumerator THEN h[this].n ELSE h[this].d
    IN  IF IsNumber(mine) /\ IsNumber(m)
        THEN IF isNumerator THEN set_n(h, this, JMul(mine, m))
                            ELSE set_d(h, this, JMul(mine, m))
        ELSE Then(from(h, mine, Undefined), LAMBDA l :
             Then(from(l.h, m, Undefined), LAMBDA r :
             Then(mul_SS(r.h, l.ret.v, r.ret.v), LAMBDA p :
             Field(p, this, isNumerator))))

\* mul$
mul_S(h, this, other) ==
    LET n0 == h[other].n
        d0 == h[other].d
        r1 == IF IsNumber(h[this].n) /\ IsNumber(d0)
              THEN ratio(h[this].n, d0) ELSE <<h[this].n, d0>>
        h1 == [h EXCEPT ![this].n = r1[1]]
        d == r1[2]
        r2 == IF IsNumber(h1[this].d) /\ IsNumber(n0)
              THEN ratio(h1[this].d, n0) ELSE <<h1[this].d, n0>>
        h2 == [h1 EXCEPT ![this].d = r2[1]]
        n == r2[2]
    IN  Then(mulSide(h2, this, TRUE, n), LAMBDA c3 :
        Then(mulSide(c3.h, this, FALSE, d), LAMBDA c4 :
        reduce_S(c4.h, this)))

\* mul$$
mul_SS(h, this, other) ==
    Then(reduce_S(h, other), LAMBDA r : mul_S(r.h, this, other))

\* other.inv$().reduce$(); return result
Restored(result, other) ==
    Then(reduce_S(inv_S(result.h, other).h, other), LAMBDA r : Ok(r.h, result.ret))

\* div$$ multiplying by the operand instead of its inverse.
div_SS_noInv(h, this, other) ==
    Then(mul_SS(h, this, other), LAMBDA result :
    Then(reduce_S(result.h, other), LAMBDA r : Ok(r.h, result.ret)))

\* div$$
div_SS(h, this, other) ==
    Then(mul_SS(inv_S(h, other).h, this, other), LAMBDA result : Restored(result, other))

\* add$$ adding the numerators without bringing them to the common denominator.
add_SS_noScale(h, this, other) ==
    Then(reduce_S(h, this), LAMBDA c1 :
    Then(reduce_S(c1.h, other), LAMBDA c2 :
    LET l == c2.h[this]
        r == c2.h[other]
        d == lcm(l.d, r.d)
    IN  Then(set_n(c2.h, this, JAdd(l.n, r.n)), LAMBDA c3 :
        Then(set_d(c3.h, this, d), LAMBDA c4 :
        reduce_S(c4.h, this)))))

\* add$$
add_SS(h, this, other) ==
    Then(reduce_S(h, this), LAMBDA c1 :
    Then(reduce_S(c1.h, other), LAMBDA c2 :
    LET l == c2.h[this]
        r == c2.h[other]
        d == lcm(l.d, r.d)
    IN  Then(set_n(c2.h, this, JAdd(JMul(JDiv(d, l.d), l.n), JMul(JDiv(d, r.d), r.n))),
             LAMBDA c3 :
        Then(set_d(c3.h, this, d), LAMBDA c4 :
        reduce_S(c4.h, this)))))

\* sub$$
sub_SS(h, this, other) ==
    Then(reduce_S(h, other), LAMBDA r :
    Then(from(r.h, JNeg(r.h[other].n), r.h[other].d), LAMBDA m :
    add_SS(m.h, this, m.ret.v)))

\* pow$ without the inversion for a negative exponent.
pow_S_noInv(h, this, power) ==
    Then(reduce_S(h, this), LAMBDA frac :
    Then(set_n(frac.h, this, JPow(frac.h[this].n, AbsInt(power))), LAMBDA c1 :
    Then(set_d(c1.h, this, JPow(c1.h[this].d, AbsInt(power))), LAMBDA c2 :
    Ok(c2.h, Ref(this)))))

\* pow$
pow_S(h, this, power) ==
    Then(reduce_S(IF power < 0 THEN inv_S(h, this).h ELSE h, this), LAMBDA frac :
    Then(set_n(frac.h, this, JPow(frac.h[this].n, AbsInt(power))), LAMBDA c1 :
    Then(set_d(c1.h, this, JPow(c1.h[this].d, AbsInt(power))), LAMBDA c2 :
    Ok(c2.h, Ref(this)))))

\* add: new Frac(this).add$$(new Frac(...other))
add(h, this, numerator, denominator) ==
    Then(construct(h, Ref(this), Undefined), LAMBDA l :
    Then(construct(l.h, numerator, denominator), LAMBDA r :
    add_SS(r.h, l.ret.v, r.ret.v)))

\* sub
sub(h, this, numerator, denominator) ==
    Then(construct(h, Ref(this), Undefined), LAMBDA l :
    Then(construct(l.h, numerator, denominator), LAMBDA r :
    sub_SS(r.h, l.ret.v, r.ret.v)))

\* mul
mul(h, this, numerator, denominator) ==
    Then(construct(h, Ref(this), Undefined), LAMBDA l :
    Then(construct(l.h, numerator, denominator), LAMBDA r :
    mul_SS(r.h, l.ret.v, r.ret.v)))

\* div
div(h, this, numerator, denominator) ==
    Then(construct(h, Ref(this), Undefined), LAMBDA l :
    Then(construct(l.h, numerator, denominator), LAMBDA r :
    div_SS(r.h, l.ret.v, r.ret.v)))

\* inv
inv(h, this) ==
    Then(construct(h, Ref(this), Undefined), LAMBDA c : inv_S(c.h, c.ret.v))

\* pow
pow(h, this, power) ==
    Then(construct(h, Ref(this), Undefined), LAMBDA c : pow_S(c.h, c.ret.v, power))

\* reduce
reduce(h, this) ==
    Then(construct(h, Ref(this), Undefined), LAMBDA c : reduce_S(c.h, c.ret.v))

\* valueOf: the quotient x.n / x.d of the reduced copy, kept as the pair.
valueOf(h, this) ==
    Then(reduce(h, this), LAMBDA x :
        Ok(x.h, [t |-> "quotient", n |-> x.h[x.ret.v].n.v, d |-> x.h[x.ret.v].d.v]))

\* compareFn of eq over two quotients of small integers: a === b.
SameQuotient(a, b) == a.n * b.d = b.n * a.d

\* compare with the compareFn of eq
eq(h, this, numerator, denominator) ==
    Then(valueOf(h, this), LAMBDA l :
    Then(construct(l.h, numerator, denominator), LAMBDA o :
    Then(valueOf(o.h, o.ret.v), LAMBDA r :
    Ok(r.h, [t |-> "bool", v |-> SameQuotient(l.ret, r.ret)]))))

RECURSIVE toString(_, _)
\* toString with its default arguments (one space, no indentation)
toString(h, this) ==
    LET side(e) == IF IsNumber(e) THEN NumberToString(e) ELSE toString(h, e.v)
    IN  <<"(">> \o side(h[this].n) \o <<" ", "/", " ">> \o side(h[this].d) \o <<")">>

(***************************************************************************)
(* Reading the heap: the objects a value is made of, its structure, and    *)
(* the rational number it denotes.                                         *)
(***************************************************************************)
RECURSIVE Visit(_, _, _)
\* The objects reachable from slot e that are not in `seen`, appended to it in
\* depth-first order, the numerator before the denominator.
Visit(h, e, seen) ==
    IF e.t # "ref" \/ (\E i \in 1..Len(seen) : seen[i] = e.v) THEN seen
    ELSE Visit(h, h[e.v].d, Visit(h, h[e.v].n, Append(seen, e.v)))

RECURSIVE VisitAll(_, _, _)
VisitAll(h, slots, seen) ==
    IF slots = <<>> THEN seen ELSE VisitAll(h, Tail(slots), Visit(h, Head(slots), seen))

Reach(h, e) == LET o == Visit(h, e, <<>>) IN {o[i] : i \in 1..Len(o)}

\* The objects reachable from `slots`, renumbered in the order they are met, and the
\* slots renamed accordingly: what is left of the heap once the garbage is collected.
Collect(h, slots) ==
    LET order == VisitAll(h, slots, <<>>)
        new(o) == CHOOSE i \in 1..Len(order) : order[i] = o
        move(e) == IF e.t = "ref" THEN Ref(new(e.v)) ELSE e
    IN  [h |-> [i \in 1..Len(order) |-> [n |-> move(h[order[i]].n), d |-> move(h[order[i]].d)]],
         slots |-> [i \in 1..Len(slots) |-> move(slots[i])]]

\* The structure of the value in slot e: its objects alone, the value itself first.
Shape(h, e) == Collect(h, <<e>>)

\* No object is met twice on the way down from e: the value is a finite tree.
RECURSIVE IsTree(_, _)
IsTree(h, e) ==
    \/ e.t # "ref"
    \/ /\ IsTree(h, h[e.v].n)
       /\ IsTree(h, h[e.v].d)
       /\ e.v \notin Reach(h, h[e.v].n) \cup Reach(h, h[e.v].d)
       /\ Reach(h, h[e.v].n) \cap Reach(h, h[e.v].d) = {}

RECURSIVE GCD(_, _)
\* The greatest common divisor of two naturals.
GCD(a, b) == IF b = 0 THEN a ELSE GCD(b, a % b)

\* No rational: the value of a division by zero.
NoValue == <<0, 0>>
\* The lowest terms of p / q, q # 0, the denominator positive.
Lowest(p, q) ==
    LET g == GCD(AbsInt(p), AbsInt(q))
    IN  <<SignInt(q) * SignInt(p) * (AbsInt(p) \div g), AbsInt(q) \div g>>
QDiv(a, b) ==
    IF a = NoValue \/ b = NoValue \/ b[1] = 0 THEN NoValue
    ELSE Lowest(a[1] * b[2], a[2] * b[1])
QMul(a, b) ==
    IF a = NoValue \/ b = NoValue THEN NoValue ELSE Lowest(a[1] * b[1], a[2] * b[2])
QAdd(a, b) ==
    IF a = NoValue \/ b = NoValue THEN NoValue
    ELSE Lowest(a[1] * b[2] + b[1] * a[2], a[2] * b[2])
QSub(a, b) ==
    IF a = NoValue \/ b = NoValue THEN NoValue
    ELSE Lowest(a[1] * b[2] - b[1] * a[2], a[2] * b[2])
QPow(a, k) ==
    IF a = NoValue THEN NoValue
    ELSE IF k >= 0 THEN Lowest(PowInt(a[1], k), PowInt(a[2], k))
    ELSE IF a[1] = 0 THEN NoValue
    ELSE Lowest(PowInt(a[2], -k), PowInt(a[1], -k))

RECURSIVE Val(_, _)
\* The rational the slot e denotes, in lowest terms, numerator over denominator at
\* every level; NoValue when a denominator on the way denotes 0 or a slot is no integer.
Val(h, e) ==
    CASE e.t = "num" -> <<e.v, 1>>
      [] e.t = "ref" -> QDiv(Val(h, h[e.v].n), Val(h, h[e.v].d))
      [] OTHER -> NoValue

\* Canonical form: two integers, the denominator positive, no common factor.
Canonical(h, e) ==
    /\ e.t = "ref"
    /\ h[e.v].n.t = "num"
    /\ h[e.v].d.t = "num"
    /\ h[e.v].d.v > 0
    /\ GCD(AbsInt(h[e.v].n.v), h[e.v].d.v) = 1

\* The pair <<numerator, denominator>> of a flat value.
Pair(h, e) == <<h[e.v].n.v, h[e.v].d.v>>

(***************************************************************************)
(* The values the specifications start from.  A tree is <<k>>, the integer *)
(* k, or <<n, d>>, the fraction of two trees; Build makes it with the      *)
(* constructor, new Frac(new Frac(1, 2), 3) for <<<<<<1>>, <<2>>>>, <<3>>>>.*)
(***************************************************************************)
Ints == -MaxArg..MaxArg
Leaves(S) == {<<k>> : k \in S}
Fracs(N, D) == {<<n, d>> : n \in N, d \in D}
\* a / b, b # 0: reduced or not, of either sign.
Flat(S) == Fracs(Leaves(S), Leaves(S \ {0}))
\* One more level: each side an integer or a value of T.
Nest(S, T) == Fracs(Leaves(S) \cup T, Leaves(S \ {0}) \cup T)

RECURSIVE Build(_, _)
Build(h, t) ==
    IF Len(t) = 1 THEN Ok(h, Num(t[1]))
    ELSE Then(Build(h, t[1]), LAMBDA n :
         Then(Build(n.h, t[2]), LAMBDA d :
         construct(d.h, n.ret, d.ret)))

\* The heap holding the value of tree t alone, and its slot.
Alone(t) == Then(Build(<<>>, t), LAMBDA a : Collect(a.h, <<a.ret>>))

\* The heap holding the values of trees t and u alone, and their slots.
Built(t, u) ==
    Then(Build(<<>>, t), LAMBDA a :
    Then(Build(a.h, u), LAMBDA b :
    Collect(b.h, <<a.ret, b.ret>>)))

VARIABLES
    heap,   \* the Frac objects
    pre,    \* the heap before the last operation
    x,      \* the receiver: a slot
    y,      \* the operand: a slot
    z,      \* a copy made by the constructor: a slot
    last,   \* the last operation: its name, arguments, error and returned value
    out,    \* the string the last toString returned
    input,  \* the string handed to Frac.parse
    stack   \* the calls of destructive methods in progress, the innermost last

vars == <<heap, pre, x, y, z, last, out, input, stack>>

NoOp == [op |-> "none", on |-> Undefined, num |-> Undefined, den |-> Undefined,
         k |-> 0, err |-> "", ret |-> Undefined]
Done(op, num, den, k, c) ==
    [op |-> op, on |-> x, num |-> num, den |-> den, k |-> k,
     err |-> c.err, ret |-> c.ret]

(***************************************************************************)
(* Spec: one public operation on a constructed value.  The receiver x is   *)
(* flat or nested; the operand is an integer, or a value y constructed for *)
(* the call and handed over as it is or as its text.                       *)
(***************************************************************************)
\* The integers of nested receivers and operands.
Small == -1..MaxSmall
Receivers == Flat(Ints) \cup Nest(Small, Flat(Small))
Operands == Flat(Small) \cup Nest({0, 2}, Flat({0, 1}))

\* The values of b are all there is: x and, when there are two, y.
Start(b) ==
    /\ heap = b.h
    /\ pre = b.h
    /\ x = b.slots[1]
    /\ y = IF Len(b.slots) > 1 THEN b.slots[2] ELSE Undefined
    /\ z = Undefined
    /\ last = NoOp
    /\ out = <<>>
    /\ input = <<>>
    /\ stack = <<>>

Init == \E t \in Receivers : Start(Alone(t))

\* The operation `op` with arguments num, den (and k) took heap h to completion c.
Step(op, h, num, den, k, c) ==
    /\ last.op = "none"
    /\ pre' = h
    /\ heap' = c.h
    /\ last' = Done(op, num, den, k, c)
    /\ UNCHANGED <<x, z, out, input, stack>>

\* The argument that hands over the value built by b: the value or its text.
Passed(b, asText) == IF asText THEN Str(toString(b.h, b.ret.v)) ELSE b.ret

\* x.op(y) or x.op(y.toString()) for the value y that b built
Given(op, run(_, _, _), b, asText) ==
    /\ Step(op, b.h, Passed(b, asText), Undefined, 0,
            run(b.h, Passed(b, asText), Undefined))
    /\ y' = b.ret

\* x.op(k), x.op(y), x.op(y.toString())
Call(op, run(_, _, _)) ==
    \/ \E k \in Ints :
        /\ Step(op, heap, Num(k), Undefined, 0, run(heap, Num(k), Undefined))
        /\ y' = y
    \/ \E u \in Operands, asText \in BOOLEAN : Given(op, run, Build(heap, u), asText)

Add == Call("add", LAMBDA h, n, d : add(h, x.v, n, d))
Sub == Call("sub", LAMBDA h, n, d : sub(h, x.v, n, d))
Mul == Call("mul", LAMBDA h, n, d : mul(h, x.v, n, d))
Div == Call("div", LAMBDA h, n, d : div(h, x.v, n, d))
Eq == Call("eq", LAMBDA h, n, d : eq(h, x.v, n, d))
Pow ==
    \E k \in -MaxPow..MaxPow :
        Step("pow", heap, Undefined, Undefined, k, pow(heap, x.v, k)) /\ y' = y
Reduce == Step("reduce", heap, Undefined, Undefined, 0, reduce(heap, x.v)) /\ y' = y
Inv == Step("inv", heap, Undefined, Undefined, 0, inv(heap, x.v)) /\ y' = y
ValueOf == Step("valueOf", heap, Undefined, Undefined, 0, valueOf(heap, x.v)) /\ y' = y
Stringify ==
    /\ last.op = "none"
    /\ out' = toString(heap, x.v)
    /\ last' = Done("toString", Undefined, Undefined, 0, Ok(heap, Undefined))
    /\ UNCHANGED <<heap, pre, x, y, z, input, stack>>
\* new Frac(numerator, denominator): each an integer, a value or absent.
New ==
    \E num \in {Undefined, x} \cup {Num(k) : k \in Ints},
       den \in {Undefined, x} \cup {Num(k) : k \in Ints} :
        Step("new", heap, num, den, 0, construct(heap, num, den)) /\ y' = y

Next ==
    \/ Add \/ Sub \/ Mul \/ Div \/ Pow \/ Reduce \/ Inv
    \/ Eq \/ ValueOf \/ Stringify \/ New

Spec == Init /\ [][Next]_vars

(***************************************************************************)
(* Properties of Spec.                                                     *)
(***************************************************************************)
Arithmetic == {"add", "sub", "mul", "div"}
Overflows == {NumeratorOverflow, DenominatorOverflow}
Returned == last.err = ""
\* The receiver and the operand of the last call, as rationals.
ReceiverVal == Val(pre, x)
OperandVal == IF last.num.t = "num" THEN <<last.num.v, 1>> ELSE Val(pre, y)
\* The receiver is nested and not flat; the operand is a nested value.
NestedReceiver == pre[x.v].n.t = "ref" \/ pre[x.v].d.t = "ref"
NestedOperand == y.t = "ref" /\ (pre[y.v].n.t = "ref" \/ pre[y.v].d.t = "ref")

\* C1: whenever add, sub, mul, div, pow or reduce returns, what it returns is in
\* canonical form: two integers, the denominator positive, no common factor.
C1_ReturnsCanonical ==
    (last.op \in Arithmetic \cup {"pow", "reduce"} /\ Returned)
        => Canonical(heap, last.ret)

\* A division of a nested receiver by a nested operand returned a negative fraction.
C1_Witness ==
    /\ last.op = "div" /\ Returned
    /\ NestedReceiver /\ NestedOperand /\ last.num.t = "ref"
    /\ heap[last.ret.v].n.v < 0 /\ heap[last.ret.v].d.v > 1

\* The exact result of the last arithmetic call.
Exact ==
    CASE last.op = "add" -> QAdd(ReceiverVal, OperandVal)
      [] last.op = "sub" -> QSub(ReceiverVal, OperandVal)
      [] last.op = "mul" -> QMul(ReceiverVal, OperandVal)
      [] last.op = "div" -> QDiv(ReceiverVal, OperandVal)
      [] OTHER -> NoValue
\* ((d / l.d) * l.n + (d / r.d) * r.n) / d with d the least common multiple of the
\* denominators of the reduced operands l and r.
SumOverLcm(l, r) ==
    LET d == (l[2] * r[2]) \div GCD(l[2], r[2])
    IN  Lowest((d \div l[2]) * l[1] + (d \div r[2]) * r[1], d)

\* C2: add, sub, mul and div of a receiver and an operand (an integer, a flat or a
\* nested value, or its text) that both denote a rational, the operand not 0 for div,
\* return the rational sum, difference, product and quotient in lowest terms, the sum
\* being ((d/l.d)*l.n + (d/r.d)*r.n) / d over the least common denominator d; the call
\* fails only when a number leaves the integer range.
C2_ExactArithmetic ==
    (/\ last.op \in Arithmetic
     /\ ReceiverVal # NoValue /\ OperandVal # NoValue
     /\ ~(last.op = "div" /\ OperandVal[1] = 0))
        => \/ last.err \in Overflows
           \/ /\ Returned
              /\ Canonical(heap, last.ret)
              /\ Pair(heap, last.ret) = Exact
              /\ last.op = "add" => Pair(heap, last.ret) = SumOverLcm(ReceiverVal, OperandVal)

\* An addition of a nested operand to a nested receiver returned a sum that is no integer.
C2_Witness ==
    /\ last.op = "add" /\ Returned
    /\ NestedReceiver /\ NestedOperand
    /\ Pair(heap, last.ret) = QAdd(ReceiverVal, OperandVal)
    /\ heap[last.ret.v].d.v > 1 /\ ReceiverVal[2] > 1 /\ OperandVal[2] > 1

\* C5: new Frac(.., 0) throws "cannot divide by zero", and so does x.div(r) for every
\* receiver x and every operand r that denotes 0: the integer 0, a flat 0/k, a nested
\* value of value 0, or the text of one; nothing is returned.
C5_DivisionByZero ==
    /\ (last.op = "new" /\ last.den.t = "num" /\ last.den.v = 0)
            => (last.err = DivisionByZero /\ last.ret = Undefined)
    /\ (last.op = "div" /\ OperandVal = <<0, 1>>)
            => (last.err = DivisionByZero /\ last.ret = Undefined)

\* A division by the text of a nested value that denotes 0 failed.
C5_Witness ==
    /\ last.op = "div" /\ last.num.t = "str" /\ NestedOperand
    /\ OperandVal = <<0, 1>> /\ last.err = DivisionByZero

\* The slots a client holds after the last call.
Held == <<x, y>> \o (IF last.ret.t = "ref" THEN <<last.ret>> ELSE <<>>)
\* C6: no denominator slot of a value the client holds, at any nesting level, is the
\* plain integer 0.
C6_NoZeroDenominator ==
    \A o \in UNION {Reach(heap, Held[i]) : i \in 1..Len(Held)} :
        ~(heap[o].d.t = "num" /\ heap[o].d.v = 0)

NonDestructive ==
    Arithmetic \cup {"pow", "inv", "reduce", "eq", "valueOf", "toString"}
\* C7: add, sub, mul, div, pow, inv, reduce, the comparison, toString and valueOf
\* leave every object that existed before the call, the receiver's and the operand's
\* at every level, as it was, whether the call returned or threw.
C7_NonDestructive ==
    last.op \in NonDestructive => SubSeq(heap, 1, Len(pre)) = pre

\* A division of a nested receiver by a nested operand that is not reduced returned.
C7_Witness ==
    /\ last.op = "div" /\ Returned /\ last.num.t = "ref"
    /\ NestedReceiver /\ NestedOperand
    /\ Len(heap) > Len(pre)
    /\ ~Canonical(heap, x) /\ ~Canonical(heap, y)

\* n / d raised to the power k >= 0, side by side.
Raised(q, k) == <<PowInt(q[1], k), PowInt(q[2], k)>>
\* What the inverse of the receiver, its numerator and denominator swapped, denotes.
InverseVal == QDiv(Val(pre, pre[x.v].d), Val(pre, pre[x.v].n))
\* What pow raises: the receiver, or its inverse for a negative exponent.
Base == IF last.k >= 0 THEN ReceiverVal ELSE InverseVal
\* The value x.inv() returns.
InvReturns == LET i == inv(pre, x.v) IN Val(i.h, i.ret)

Reducible ==
    Flat(-MaxFlat..MaxFlat)
        \cup Nest(Small, Flat(Small))
        \cup Nest({-1, 0, 2}, Nest({-1, 0, 2}, Flat({-1, 0, 2})))

InitReduce == \E t \in Reducible : Start(Alone(t))

\* x.reduce$()
ReduceInPlace ==
    Step("reduce$", heap, Undefined, Undefined, 0, reduce_S(heap, x.v)) /\ y' = y

NextReduce == Reduce \/ ReduceInPlace

SpecReduce == InitReduce /\ [][NextReduce]_vars

Reduction == {"reduce", "reduce$"}
FlatReceiver == pre[x.v].n.t = "num" /\ pre[x.v].d.t = "num"

\* C3: reducing the flat a / b, b # 0, gives the numerator (a / g) * sign(b) and the
\* denominator |b| / g > 0 for g the positive greatest common divisor of |a| and |b|,
\* and exactly 0 / 1 for a = 0.
C3_ReduceFlat ==
    (last.op \in Reduction /\ FlatReceiver)
        => LET a == pre[x.v].n.v
               b == pre[x.v].d.v
               g == GCD(AbsInt(a), AbsInt(b))
           IN  /\ Returned
               /\ Pair(heap, last.ret) = <<(a \div g) * SignInt(b), AbsInt(b) \div g>>
               /\ heap[last.ret.v].d.v > 0
               /\ a = 0 => Pair(heap, last.ret) = <<0, 1>>

\* A flat value with a negative denominator and a common factor was reduced.
C3_Witness ==
    /\ last.op = "reduce$" /\ Returned /\ FlatReceiver
    /\ pre[x.v].d.v < -1 /\ pre[x.v].n.v > 1
    /\ heap[x.v].d.v > 1 /\ heap[x.v].d.v < -pre[x.v].d.v
    /\ heap[x.v].n.v < -1

\* C4: reduce of a nested value whose denominators all denote a nonzero rational
\* returns, as two integers in lowest terms, the rational that evaluating the value
\* as numerator / denominator at every level gives.
C4_ReduceNested ==
    (last.op \in Reduction /\ NestedReceiver /\ ReceiverVal # NoValue)
        => /\ Returned
           /\ Canonical(heap, last.ret)
           /\ Pair(heap, last.ret) = ReceiverVal

\* ((1 / 2) / (1 / 2)) was reduced to (1 / 1).
C4_Witness ==
    /\ last.op = "reduce" /\ Returned
    /\ Shape(pre, x).h = Alone(<< << <<1>>, <<2>> >>, << <<1>>, <<2>> >> >>).h
    /\ Pair(heap, last.ret) = <<1, 1>>

(***************************************************************************)
(* SpecParse: a text is parsed, the value is printed, the print is parsed  *)
(* again and compared with the value.  The texts are those of fractions    *)
(* nested up to two levels deep, written with or without spaces.           *)
(***************************************************************************)
Decimal(k) == (IF k < 0 THEN <<"-">> ELSE <<>>) \o NatToString(AbsInt(k))

RECURSIVE Write(_, _)
\* The text of tree t with `pad` around the numerator and the denominator.
Write(t, pad) ==
    IF Len(t) = 1 THEN Decimal(t[1])
    ELSE <<"(">> \o pad \o Write(t[1], pad) \o pad \o <<"/">>
            \o pad \o Write(t[2], pad) \o pad \o <<")">>

Texts == {Write(t, pad) : t \in Reducible, pad \in {<<>>, <<" ">>}}

InitParse ==
    /\ heap = <<>>
    /\ pre = <<>>
    /\ x = Undefined
    /\ y = Undefined
    /\ z = Undefined
    /\ last = NoOp
    /\ out = <<>>
    /\ input \in Texts
    /\ stack = <<>>

\* Frac.parse(str) completed with c: the value goes to x, or to y when x is parsed back.
Read(c, str, back) ==
    /\ heap' = c.h
    /\ x' = IF back THEN x ELSE c.ret
    /\ y' = IF back THEN c.ret ELSE y
    /\ last' = [Done("parse", Str(str), Undefined, 0, c) EXCEPT !.on = Undefined]
    /\ pre' = heap
    /\ UNCHANGED <<z, out, input, stack>>

\* x = Frac.parse(input)
Parse == last.op = "none" /\ Read(Frac_parse(heap, input), input, FALSE)

\* out = x.toString()
Show ==
    /\ last.op = "parse" /\ last.err = "" /\ out = <<>>
    /\ out' = toString(heap, x.v)
    /\ last' = Done("toString", Undefined, Undefined, 0, Ok(heap, Undefined))
    /\ pre' = heap
    /\ UNCHANGED <<heap, x, y, z, input, stack>>

\* y = Frac.parse(out)
ParseBack == last.op = "toString" /\ Read(Frac_parse(heap, out), out, TRUE)

\* y.eq(x) completed with c
Answer(c) ==
    /\ heap' = c.h
    /\ last' = [Done("eq", x, Undefined, 0, c) EXCEPT !.on = y]
    /\ pre' = heap
    /\ UNCHANGED <<x, y, z, out, input, stack>>

\* y.eq(x)
Same ==
    /\ last.op = "parse" /\ last.err = "" /\ out # <<>>
    /\ Answer(eq(heap, y.v, x, Undefined))

NextParse == Parse \/ Show \/ ParseBack \/ Same

SpecParse == InitParse /\ [][NextParse]_vars

\* The last operation parsed what toString printed; it compared the two values.
ParsedBack == last.op = "parse" /\ out # <<>>
Compared == last.op = "eq" /\ last.on = y

\* C10 as stated: for every value v that parse produces, parse(toString(v)) succeeds
\* and is equal to v by eq.
C10_Original ==
    /\ ParsedBack => Returned
    /\ Compared => (Returned /\ last.ret.v = TRUE)

\* C10, amended: for every value v that parse produces, parse(toString(v)) succeeds
\* and is a value with the structure and the text of v; it is equal to v by eq when v
\* denotes a rational, and eq throws "cannot divide by zero" when a nested denominator
\* of v denotes 0.
C10_RoundTrip ==
    /\ ParsedBack
        => /\ Returned
           /\ Shape(heap, last.ret).h = Shape(heap, x).h
           /\ toString(heap, last.ret.v) = out
    /\ Compared
        => IF Val(heap, x) # NoValue
           THEN Returned /\ last.ret.v = TRUE
           ELSE last.err = DivisionByZero

\* A value two levels deep with a negative integer went round and compared equal.
C10_Witness ==
    /\ Compared /\ Returned /\ last.ret.v = TRUE
    /\ heap[x.v].d.t = "ref" /\ heap[heap[x.v].d.v].n.t = "ref"
    /\ \E o \in Reach(heap, x) : heap[o].n.t = "num" /\ heap[o].n.v < 0
    /\ out # input

(***************************************************************************)
(* SpecSyntax: Frac.parse on a text that need not be one of a fraction:    *)
(* every short string over the characters of the format, and fractions     *)
(* one operand of which is any short string of digits, signs, points and   *)
(* letters.                                                                *)
(***************************************************************************)
\* The strings over the characters of the format are at most this long.
MaxText == 6
\* The strings that stand where an operand does are at most this long.
MaxOperand == 3

Strings(chars, k) == UNION {[1..n -> chars] : n \in 0..k}
Marks == {"0", "1", "2", "-", ".", "e", "x"}
Words == Strings(Marks, MaxOperand) \ {<<>>}
\* (w/t) and (t/w), spaced or not
Around(w, t, pad) ==
    {<<"(">> \o pad \o w \o pad \o <<"/">> \o pad \o t \o pad \o <<")">>,
     <<"(">> \o pad \o t \o pad \o <<"/">> \o pad \o w \o pad \o <<")">>}
Candidates ==
    Strings({"(", ")", "/", "-", "1", " "}, MaxText)
        \cup UNION {Around(w, t, pad) :
                        w \in Words,
                        t \in {<<"2">>, <<"(", "1", "/", "2", ")">>},
                        pad \in {<<>>, <<" ">>}}

InitSyntax ==
    /\ heap = <<>>
    /\ pre = <<>>
    /\ x = Undefined
    /\ y = Undefined
    /\ z = Undefined
    /\ last = NoOp
    /\ out = <<>>
    /\ input \in Candidates
    /\ stack = <<>>

NextSyntax == Parse

SpecSyntax == InitSyntax /\ [][NextSyntax]_vars

\* The grammar, positions counted from 1 and 0 standing for no derivation:
\* fraction := "(" operand "/" operand ")", operand := integer | fraction,
\* integer := an optional "-" and one or more digits, spaces between the tokens.
RECURSIVE Spaces(_, _)
Spaces(s, i) == IF i <= Len(s) /\ s[i] = " " THEN Spaces(s, i + 1) ELSE i
\* The position after the character c expected at i, spaces skipped.
Expect(s, i, c) ==
    LET j == IF i = 0 THEN 0 ELSE Spaces(s, i)
    IN  IF j # 0 /\ j <= Len(s) /\ s[j] = c THEN j + 1 ELSE 0
IntegerEnd(s, i) ==
    LET j == IF i <= Len(s) /\ s[i] = "-" THEN i + 1 ELSE i
        n == DigitRun(Drop(s, j - 1))
    IN  IF n = 0 THEN 0 ELSE j + n
RECURSIVE FractionEnd(_, _)
OperandEnd(s, i) ==
    LET j == IF i = 0 THEN 0 ELSE Spaces(s, i)
    IN  IF j = 0 \/ j > Len(s) THEN 0
        ELSE IF s[j] = "(" THEN FractionEnd(s, j)
        ELSE IntegerEnd(s, j)
FractionEnd(s, i) ==
    Expect(s, OperandEnd(s, Expect(s, OperandEnd(s, Expect(s, i, "(")), "/")), ")")
Derivable(s) ==
    LET e == FractionEnd(s, 1)
    IN  e # 0 /\ Spaces(s, e) = Len(s) + 1

\* C11: Frac.parse returns a value only for the strings the grammar derives, and
\* fails with SyntaxError on every other string: one with a decimal point or an
\* exponent in a number, a character that is no digit in an operand, a missing or
\* mismatched token, or characters after the closing parenthesis.
C11_GrammarOnly ==
    last.op = "parse"
        => /\ Returned => Derivable(input)
           /\ ~Derivable(input) => last.err = SyntaxError

(***************************************************************************)
(* SpecCopy: the constructor makes the value z from the values x and y,    *)
(* and destructive operations are then applied, in any order and number,   *)
(* to z or else to x.  The heap keeps the objects reachable from x, y, z,  *)
(* and pre stays the heap the sources were built in.                       *)
(***************************************************************************)
Sources == Nest({2}, Flat({2}))
Scalars == {-1, 0, 2}

InitCopy ==
    \E t \in Sources, u \in {<< <<1>>, <<2>> >>, << <<1>>, <<<<2>>, <<2>>>> >>} :
        Start(Built(t, u))

\* Every integer of heap h is within the bound.
Within(h) ==
    \A o \in 1..Len(h) :
        /\ h[o].n.t = "num" => AbsInt(h[o].n.v) <= MaxCopy
        /\ h[o].d.t = "num" => AbsInt(h[o].d.v) <= MaxCopy

\* The operation `op` on the receiver r (0 for none) ran to completion c: the
\* garbage is collected, and the receiver is the value in slot `on` from then on.
Change(op, r, c) ==
    /\ Within(c.h)
    /\ LET roots == IF z = Undefined /\ op = "new" THEN <<x, y, c.ret>> ELSE <<x, y, z>>
           g == Collect(c.h, roots)
       IN  /\ heap' = g.h
           /\ x' = g.slots[1]
           /\ y' = g.slots[2]
           /\ z' = g.slots[3]
           /\ last' = [NoOp EXCEPT !.op = op, !.err = c.err,
                                    !.on = IF r = 0 THEN Undefined ELSE g.slots[r]]
    /\ UNCHANGED <<pre, out, input, stack>>

\* z = new Frac(x), new Frac(x, y), new Frac(k, y), new Frac(x, k)
Copy ==
    /\ z = Undefined
    /\ \E num \in {x, Num(2)}, den \in {y, Num(2), Undefined} :
        /\ x \in {num, den} \/ y \in {num, den}
        /\ ~Failed(construct(heap, num, den))
        /\ Change("new", 0, construct(heap, num, den))

\* The roots destructive operations are applied to: the copy or else a source,
\* whichever the first operation after the copy is applied to.
Root(r) == <<x, y, z>>[r]
Mutable ==
    IF z = Undefined THEN {}
    ELSE {r \in {1, 3} : last.op = "new" \/ last.on = Root(r)}

InvS == \E r \in Mutable :
    Change("inv$", r, inv_S(heap, Root(r).v))
ReduceS == \E r \in Mutable :
    Change("reduce$", r, reduce_S(heap, Root(r).v))
PowS == \E r \in Mutable, k \in {-1, 2} :
    Change("pow$", r, pow_S(heap, Root(r).v, k))
\* r.add$$(new Frac(k))
AddSS == \E r \in Mutable, k \in Scalars :
    Change("add$$", r, Then(construct(heap, Num(k), Undefined), LAMBDA other :
                            add_SS(other.h, Root(r).v, other.ret.v)))
\* r.mul$$(new Frac(k))
MulSS == \E r \in Mutable, k \in Scalars :
    Change("mul$$", r, Then(construct(heap, Num(k), Undefined), LAMBDA other :
                            mul_SS(other.h, Root(r).v, other.ret.v)))
\* r.div$$(new Frac(k))
DivSS == \E r \in Mutable, k \in Scalars :
    Change("div$$", r, Then(construct(heap, Num(k), Undefined), LAMBDA other :
                            div_SS(other.h, Root(r).v, other.ret.v)))
\* r.n = k, r.n = new Frac(1, 2)
SetN == \E r \in Mutable :
    \/ \E k \in Scalars : Change("set n", r, set_n(heap, Root(r).v, Num(k)))
    \/ Change("set n", r, Then(construct(heap, Num(1), Num(2)), LAMBDA v :
                               set_n(v.h, Root(r).v, v.ret)))
\* r.d = k, r.d = new Frac(1, 2)
SetD == \E r \in Mutable :
    \/ \E k \in Scalars : Change("set d", r, set_d(heap, Root(r).v, Num(k)))
    \/ Change("set d", r, Then(construct(heap, Num(1), Num(2)), LAMBDA v :
                               set_d(v.h, Root(r).v, v.ret)))

NextCopy == Copy \/ InvS \/ ReduceS \/ PowS \/ AddSS \/ MulSS \/ DivSS \/ SetN \/ SetD

SpecCopy == InitCopy /\ [][NextCopy]_vars

\* The copy shares no object with its sources.
Apart == Reach(heap, z) \cap (Reach(heap, x) \cup Reach(heap, y)) = {}
\* A step leaves every value but the one it is applied to with the structure it had.
Frame ==
    /\ (x' # last'.on) => Shape(heap', x').h = Shape(heap, x).h
    /\ (y' # last'.on) => Shape(heap', y').h = Shape(heap, y).h
    /\ (z' # last'.on /\ z # Undefined) => Shape(heap', z').h = Shape(heap, z).h

\* C8: the value the constructor makes from values shares no object with them, and
\* every destructive operation, in a sequence of them on the copy or in a sequence of
\* them on a source, leaves the other values with the structure they had.
C8_DeepCopy == [](z # Undefined => Apart) /\ [][Frame]_vars

\* The copy of a nested source was reduced in place and the source is still nested.
C8_Witness ==
    /\ last.op = "reduce$" /\ last.on = z /\ last.err = ""
    /\ Canonical(heap, z)
    /\ heap[x.v].n.t = "ref" /\ heap[x.v].d.t = "ref"
    /\ ~Canonical(heap, heap[x.v].d)

(***************************************************************************)
(* SpecRecursion: reduce and reduce$ on one value, call by call.  The      *)
(* methods reduce$, div$$, mul$$ and mul$ call one another; each call in   *)
(* progress is a frame of the stack: the method, its receiver `this`, its  *)
(* argument `other`, the statement `pc` it has come to, its locals n and   *)
(* d, and the value `got` from the call it made last.  A throw unwinds the *)
(* whole stack: the code catches nothing.                                  *)
(***************************************************************************)
\* No run nests more calls than this.
MaxDepth == 16

\* The values reduced call by call: up to three levels deep, a denominator of
\* value 0 among them.
Recursive ==
    Nest(Small, Flat({0, 2})) \cup Nest({2}, Nest({2}, Flat({0, 2})))

InitRecursion == \E t \in Recursive : Start(Alone(t))

RECURSIVE Slots(_, _)
\* The number of slots that hold no integer in the value of object o.
Slots(h, o) ==
    (IF h[o].n.t = "ref" THEN 1 + Slots(h, h[o].n.v) ELSE 0)
        + (IF h[o].d.t = "ref" THEN 1 + Slots(h, h[o].d.v) ELSE 0)

NewFrame(f, this, other) ==
    [f |-> f, pc |-> 0, this |-> this, other |-> other,
     n |-> Undefined, d |-> Undefined, got |-> Undefined, size |-> 0]
\* this.reduce$() called in heap h
ReduceFrame(h, this) == [NewFrame("reduce$", this, 0) EXCEPT !.size = Slots(h, this)]

top == stack[Len(stack)]
Running == stack # <<>>
Finished == last.op \in Reduction /\ ~Running

\* What a step of the innermost call leaves: the heap h and the stack s, or, `done`,
\* the completion of the outermost call.
Becomes(h, s) == [h |-> h, s |-> s, done |-> FALSE, err |-> "", ret |-> Undefined]
\* The outermost call completed with c.
Completes(c) == [h |-> c.h, s |-> <<>>, done |-> TRUE, err |-> c.err, ret |-> c.ret]
\* The innermost call goes on as frame t.
Goes(h, t) == Becomes(h, [stack EXCEPT ![Len(stack)] = t])
\* The innermost call, going on as frame t, calls: frame `callee` is pushed.
Calls(h, t, callee) == Becomes(h, Append([stack EXCEPT ![Len(stack)] = t], callee))
\* The innermost call returns v to its caller.
Returns(h, v) ==
    IF Len(stack) = 1 THEN Completes(Ok(h, v))
    ELSE Becomes(h, [SubSeq(stack, 1, Len(stack) - 1)
                        EXCEPT ![Len(stack) - 1].got = v])
\* A call the innermost frame makes atomically completed with c.
Try(c, rest(_)) ==
    CHOOSE r \in {IF Failed(v) THEN Completes(v) ELSE rest(v) : v \in {c}} : TRUE
\* The step that leaves c is taken.
Moved(c) ==
    /\ Len(c.s) <= MaxDepth
    /\ heap' = c.h
    /\ stack' = c.s
    /\ last' = IF c.done THEN [last EXCEPT !.err = c.err, !.ret = c.ret] ELSE last
    /\ UNCHANGED <<pre, x, y, z, out, input>>

\* x.reduce() or x.reduce$() is called
CallReduce ==
    /\ last.op = "none" /\ ~Running
    /\ \E op \in Reduction :
        /\ last' = [NoOp EXCEPT !.op = op, !.on = x]
        /\ pre' = heap
        /\ IF op = "reduce"
           THEN /\ ~Failed(construct(heap, x, Undefined))
                /\ heap' = construct(heap, x, Undefined).h
                /\ stack' = <<ReduceFrame(heap', construct(heap, x, Undefined).ret.v)>>
           ELSE /\ heap' = heap
                /\ stack' = <<ReduceFrame(heap, x.v)>>
        /\ UNCHANGED <<x, y, z, out, input>>

\* reduce$ dividing the receiver itself by its denominator.
dividend_self(h, this) == Ref(this)

\* reduce$: the operand of Frac.#from(this.#n)
dividend(h, this) == h[this].n

\* reduce$ at its statement pc
reduceAt(pc) ==
    IF pc = 0
    THEN IF IsNumber(heap[top.this].n) /\ IsNumber(heap[top.this].d)
         THEN Try(reduce_S(heap, top.this), LAMBDA c : Returns(c.h, c.ret))
         ELSE Try(from(heap, dividend(heap, top.this), Undefined), LAMBDA l :
              Try(from(l.h, l.h[top.this].d, Undefined), LAMBDA r :
              Calls(r.h, [top EXCEPT !.pc = 1], NewFrame("div$$", l.ret.v, r.ret.v))))
    ELSE Returns(Taken(Ok(heap, top.got), top.this).h, Ref(top.this))

\* A step of reduce$
ReduceStep == Running /\ top.f = "reduce$" /\ \E c \in {reduceAt(top.pc)} : Moved(c)

\* div$$ at its statement pc
divAt(pc) ==
    CASE pc = 0 ->
            Calls(inv_S(heap, top.other).h, [top EXCEPT !.pc = 1],
                  NewFrame("mul$$", top.this, top.other))
      [] pc = 1 ->
            Calls(inv_S(heap, top.other).h, [top EXCEPT !.pc = 2, !.n = top.got],
                  ReduceFrame(heap, top.other))
      [] OTHER -> Returns(heap, top.n)

\* A step of div$$
DivStep == Running /\ top.f = "div$$" /\ \E c \in {divAt(top.pc)} : Moved(c)

\* mul$$ at its statement pc
mulAt(pc) ==
    CASE pc = 0 -> Calls(heap, [top EXCEPT !.pc = 1], ReduceFrame(heap, top.other))
      [] pc = 1 -> Calls(heap, [top EXCEPT !.pc = 2], NewFrame("mul$", top.this, top.got.v))
      [] OTHER -> Returns(heap, top.got)

\* A step of mul$$
MulStep == Running /\ top.f = "mul$$" /\ \E c \in {mulAt(top.pc)} : Moved(c)

\* mul$: the common factors of this.#n and d, and of this.#d and n, are cancelled.
Cancelled(h, this, n, d) ==
    LET r1 == IF IsNumber(h[this].n) /\ IsNumber(d) THEN ratio(h[this].n, d)
              ELSE <<h[this].n, d>>
        r2 == IF IsNumber(h[this].d) /\ IsNumber(n) THEN ratio(h[this].d, n)
              ELSE <<h[this].d, n>>
    IN  [h |-> [h EXCEPT ![this].n = r1[1], ![this].d = r2[1]],
         n |-> r2[2], d |-> r1[2]]
\* mul$ goes on with the statement at pc, the factors left being those of c.
Factors(t, c, pc) == Goes(c.h, [t EXCEPT !.pc = pc, !.n = c.n, !.d = c.d])
\* mul$: one side is multiplied: by the setter, or by a call of mul$$.
Side(isNumerator, mine, m, pc) ==
    IF IsNumber(mine) /\ IsNumber(m)
    THEN Try(IF isNumerator THEN set_n(heap, top.this, JMul(mine, m))
                            ELSE set_d(heap, top.this, JMul(mine, m)),
             LAMBDA c : Goes(c.h, [top EXCEPT !.pc = pc + 2]))
    ELSE Try(from(heap, mine, Undefined), LAMBDA l :
         Try(from(l.h, m, Undefined), LAMBDA r :
         Calls(r.h, [top EXCEPT !.pc = pc + 1], NewFrame("mul$$", l.ret.v, r.ret.v))))

\* mul$ at its statement pc
mulInPlaceAt(pc) ==
    CASE pc = 0 ->
            Factors(top, Cancelled(heap, top.this, heap[top.other].n,
                                   heap[top.other].d), 1)
      [] pc = 1 -> Side(TRUE, heap[top.this].n, top.n, 1)
      [] pc = 2 -> Goes(Field(Ok(heap, top.got), top.this, TRUE).h, [top EXCEPT !.pc = 3])
      [] pc = 3 -> Side(FALSE, heap[top.this].d, top.d, 3)
      [] pc = 4 -> Goes(Field(Ok(heap, top.got), top.this, FALSE).h, [top EXCEPT !.pc = 5])
      [] pc = 5 -> Calls(heap, [top EXCEPT !.pc = 6], ReduceFrame(heap, top.this))
      [] OTHER -> Returns(heap, top.got)

\* A step of mul$
MulInPlaceStep == Running /\ top.f = "mul$" /\ \E c \in {mulInPlaceAt(top.pc)} : Moved(c)

NextRecursion == CallReduce \/ ReduceStep \/ DivStep \/ MulStep \/ MulInPlaceStep

\* A call in progress takes its next step.
SpecRecursion ==
    InitRecursion /\ [][NextRecursion]_vars /\ WF_vars(NextRecursion)

\* The frames of reduce$ in stack s, and the one the others are nested in.
ReduceCalls(s) == {i \in 1..Len(s) : s[i].f = "reduce$"}
Innermost(s) == s[CHOOSE i \in ReduceCalls(s) : \A j \in ReduceCalls(s) : j <= i]
\* A step that calls reduce$ from within a call of reduce$ hands it a value with
\* strictly fewer slots that hold no integer than the value that call was handed.
Descends ==
    (Len(stack') > Len(stack) /\ top'.f = "reduce$" /\ ReduceCalls(stack) # {})
        => top'.size < Innermost(stack).size
\* What the methods return when run to completion at once.
AtOnce == IF last.op = "reduce" THEN reduce(pre, x.v) ELSE reduce_S(pre, x.v)

\* C12: reduce and reduce$ of a value that is a finite tree, of any depth and any
\* mix of integer and nested slots, terminate: the calls reduce$ -> div$$ -> mul$$
\* -> mul$ -> reduce$ come to an end, returning a canonical value or failing, and
\* each call of reduce$ made within a call of reduce$ works on a value with
\* strictly fewer nested slots.
C12_ReduceTerminates ==
    /\ <>Finished
    /\ [](Len(stack) < MaxDepth)
    /\ [](Finished => (~Returned \/ Canonical(heap, last.ret)))
    /\ [](Finished => (heap = AtOnce.h /\ last.err = AtOnce.err /\ last.ret = AtOnce.ret))
    /\ [][Descends]_vars

\* A value three levels deep is being reduced, the calls of reduce$ nested three deep
\* having come to two integers.
C12_Witness ==
    /\ Running /\ Cardinality(ReduceCalls(stack)) >= 3
    /\ Slots(pre, x.v) >= 3
    /\ top.f = "reduce$" /\ top.size = 0


(***************************************************************************)
(* SpecInPlace: one destructive operation of the receiver x with the value *)
(* y as its argument.  add$, sub$, mul$ and div$ are documented to leave   *)
(* the argument as it is; add$$, sub$$, mul$$ and div$$ to reduce it, and  *)
(* they are also called with the receiver itself as the argument.          *)
(***************************************************************************)
\* add$
add_S(h, this, other) ==
    Then(construct(h, Ref(other), Undefined), LAMBDA c : add_SS(c.h, this, c.ret.v))

\* sub$
sub_S(h, this, other) ==
    Then(construct(h, Ref(other), Undefined), LAMBDA c : sub_SS(c.h, this, c.ret.v))

\* div$
div_S(h, this, other) ==
    Then(construct(h, Ref(other), Undefined), LAMBDA c : div_SS(c.h, this, c.ret.v))

\* Flat and nested values, reduced or not; the nested parts are 0/2 and 2/2.
Targets == Flat(Small) \cup Nest({2}, Flat({2}))
Arguments == Flat(Small) \cup Nest({0, 2}, Flat({0, 2}))

InitInPlace == \E t \in Targets, u \in Arguments : Start(Built(t, u))

\* x.op(arg) ran to completion c
Applied(op, arg, c) == Step(op, heap, arg, Undefined, 0, c) /\ y' = y

AddS == Applied("add$", y, add_S(heap, x.v, y.v))
SubS == Applied("sub$", y, sub_S(heap, x.v, y.v))
MulS == Applied("mul$", y, mul_S(heap, x.v, y.v))
DivS == Applied("div$", y, div_S(heap, x.v, y.v))
\* x.op$$(y) and x.op$$(x)
AddReduce == \E a \in {x, y} : Applied("add$$", a, add_SS(heap, x.v, a.v))
SubReduce == \E a \in {x, y} : Applied("sub$$", a, sub_SS(heap, x.v, a.v))
MulReduce == \E a \in {x, y} : Applied("mul$$", a, mul_SS(heap, x.v, a.v))
DivReduce == \E a \in {x, y} : Applied("div$$", a, div_SS(heap, x.v, a.v))

NextInPlace ==
    \/ AddS \/ SubS \/ MulS \/ DivS
    \/ AddReduce \/ SubReduce \/ MulReduce \/ DivReduce

SpecInPlace == InitInPlace /\ [][NextInPlace]_vars

Keeping == {"add$", "sub$", "mul$", "div$"}
Reducing == {"add$$", "sub$$", "mul$$", "div$$"}
\* The argument of the last call, as a rational, before the call.
ArgumentVal == Val(pre, last.num)
\* The exact result of the last call in place.
ExactInPlace ==
    CASE last.op \in {"add$", "add$$"} -> QAdd(ReceiverVal, ArgumentVal)
      [] last.op \in {"sub$", "sub$$"} -> QSub(ReceiverVal, ArgumentVal)
      [] last.op \in {"mul$", "mul$$"} -> QMul(ReceiverVal, ArgumentVal)
      [] last.op \in {"div$", "div$$"} -> QDiv(ReceiverVal, ArgumentVal)
      [] OTHER -> NoValue

\* C13: add$, sub$, mul$ and div$, when they return, return the receiver, which then
\* holds the exact result in canonical form, and they leave the argument, flat or
\* nested, reduced or not, with the numerator and the denominator it had at every
\* nesting level, hence with the same text.
C13_ArgumentKept ==
    last.op \in Keeping
        => /\ Shape(heap, y) = Shape(pre, y)
           /\ toString(heap, y.v) = toString(pre, y.v)
           /\ Returned => /\ last.ret = x
                          /\ Canonical(heap, x)
                          /\ Pair(heap, x) = ExactInPlace

\* x.op(arg) for the call x.op$$(arg) made last, on the values before that call.
Plain ==
    CASE last.op = "add$$" -> add(pre, x.v, last.num, Undefined)
      [] last.op = "sub$$" -> sub(pre, x.v, last.num, Undefined)
      [] last.op = "mul$$" -> mul(pre, x.v, last.num, Undefined)
      [] last.op = "div$$" -> div(pre, x.v, last.num, Undefined)
      [] OTHER -> Throw(pre, InvalidOperandType)
\* The last call and completion c ended alike: the same error, or the same fraction.
Alike(c) ==
    /\ last.err = c.err
    /\ Returned => /\ last.ret = x
                   /\ Canonical(heap, x)
                   /\ Pair(heap, x) = Pair(c.h, c.ret)
Aliased == last.num = x

\* C14: x.add$$(a), x.sub$$(a), x.mul$$(a) and x.div$$(a), for a value a that is not
\* 0 for div$$ and that is the argument y or the receiver x itself, end as x.add(a),
\* x.sub(a), x.mul(a) and x.div(a) on the values before the call do: returning the
\* same canonical fraction, so that x.div$$(x) returns 1/1; and when the call returns
\* and a is not x, a holds the canonical form of the value it had.
C14_SameAsPlain ==
    (last.op \in Reducing /\ ~(last.op = "div$$" /\ ArgumentVal[1] = 0))
        => /\ Alike(Plain)
           /\ (Returned /\ ~Aliased)
                => (Canonical(heap, y) /\ Pair(heap, y) = ArgumentVal)

(***************************************************************************)
(* SpecProduct: x.mul(a) and then y.mul(a) for two receivers x and y that  *)
(* denote the same rational, with integers up to the bound of the range.   *)
(* z is what the first call returned, absent when it threw.                *)
(***************************************************************************)
Half == MaxSafeInteger \div 2
Wide == {1, 2, 3, Half, 2 * Half}
Multipliers == {<<2>>, <<3>>, <<Half>>, <<<<3>>, <<Half>>>>, <<<<Half>>, <<2>>>>, <<<<2>>, <<2>>>>}
Multiplicands == Flat(Wide) \cup Nest({Half}, Flat({2, Half}))

\* x and y denote the same rational.
InitProduct ==
    \E t \in Multiplicands, u \in Multiplicands :
        /\ Start(Built(t, u))
        /\ Val(heap, x) = Val(heap, y)

\* x.mul(a), the operand a an integer or a value made for the two calls
MulFirst ==
    /\ last.op = "none"
    /\ \E u \in Multipliers : \E b \in {Build(heap, u)} : \E c \in {mul(b.h, x.v, b.ret, Undefined)} :
        /\ heap' = c.h
        /\ z' = c.ret
        /\ last' = Done("mul", b.ret, Undefined, 0, c)
    /\ pre' = heap
    /\ UNCHANGED <<x, y, out, input, stack>>

\* y.mul(a) with the operand of the first call
MulSecond ==
    /\ last.op = "mul" /\ last.on = x
    /\ \E c \in {mul(heap, y.v, last.num, Undefined)} :
        /\ heap' = c.h
        /\ last' = [Done("mul", last.num, Undefined, 0, c) EXCEPT !.on = y]
    /\ UNCHANGED <<pre, x, y, z, out, input, stack>>

NextProduct == MulFirst \/ MulSecond

SpecProduct == InitProduct /\ [][NextProduct]_vars

\* The rational q, in lowest terms, has both integers in the range.
Fits(q) == q # NoValue /\ AbsInt(q[1]) <= MaxSafeInteger /\ q[2] <= MaxSafeInteger
\* The receiver, the operand and the exact product of the last call to mul.
MultiplicandVal == Val(pre, last.on)
MultiplierVal == Val(heap, last.num)
Product == QMul(MultiplicandVal, MultiplierVal)

\* C15: for receivers x and y of the same canonical form, x.mul(a) and y.mul(a) both
\* return the same canonical fraction or both fail; and mul returns the canonical
\* product whenever the canonical forms of the receiver, of the operand and of the
\* product have their integers in the range.
C15_CanonicalFormsOnly ==
    /\ (last.op = "mul" /\ last.on = y)
        => /\ Returned <=> z # Undefined
           /\ Returned => Pair(heap, last.ret) = Pair(heap, z)
    /\ (last.op = "mul" /\ Fits(MultiplicandVal) /\ Fits(MultiplierVal) /\ Fits(Product))
        => /\ Returned
           /\ Canonical(heap, last.ret)
           /\ Pair(heap, last.ret) = Product

=============================================================================
